---------------------------- MODULE Spec2Model ----------------------------
(***************************************************************************)
(* A model of the nintynine-boundaries pipeline:                           *)
(*   utils.overpass_call_with_retry   the remote fetch with retry          *)
(*   utils.filter_by_overlap,                                              *)
(*   utils.apply_overlap_filter       the overlap filter                   *)
(*   utils.to_files                   the re-aggregation before the export *)
(*   make_boundary.process_admin_level, make_boundary.main                 *)
(*                                    the per country / per level loop     *)
(*                                                                         *)
(* Geometry is modelled on a strip of unit cells 1..NCells.  A geometry is *)
(* the set of cells its surface covers (area), the cells a line of it runs *)
(* through (line) and the cells holding a point of it (pts); its area is   *)
(* the number of surface cells and its type follows from its content, as   *)
(* in the geometry engine.                                                 *)
(***************************************************************************)
EXTENDS Integers, Sequences, FiniteSets, TLC

\* ------------------------------------------------------------------ bounds
NCells == 3
MaxCand == 2
MaxRetriesBound == 3
MaxRows == 3
MaxId == 2
MaxFeatures == 2
NCountries == 2
MaxLevel == 3
MaxFormats == 2

\* --------------------------------------------------------------- constants
PARENT_ADMIN_LEVEL == 2

None == "None"

Cells == 1..NCells

VARIABLES
    \* overpass_call_with_retry
    max_retries,      \* parameter
    initial_delay,    \* parameter
    attempt,          \* the loop variable of `for attempt in range(max_retries)`
    delay,            \* the local `delay`
    trace,            \* what the call did so far: remote calls and sleeps, in order
    rstate,           \* "loop" | "returned" | "raised"
    retval,           \* the value returned, NoResult before
    raised,           \* the exception that left the function, NoException before
    \* apply_overlap_filter / filter_by_overlap, called on its own
    f_gdf,            \* the caller's candidate frame (`gdf`)
    f_level,          \* `current_admin_level`
    f_reference,      \* `gdf_country_reference`: a frame or None
    f_min,            \* `min_overlap_ratio`
    f_called,         \* which of the two functions was called, "" before the call
    f_result,         \* the frame returned, None before the call
    \* to_files, called on its own
    e_gdf,            \* the frame passed (`gdf`)
    e_called,         \* whether to_files was called
    e_emitted,        \* the features the export loop ran over, in order
    \* main and process_admin_level
    max_admin_level,       \* args.max_admin_level
    land_data_dir,         \* args.land_data_dir: None, or the land polygons it holds
    country,               \* the position of `alpha2` in alpha2_list
    m_admin_level,         \* main's loop variable current_admin_level
    m_reference,           \* main's gdf_country_reference: a frame, or None
    pc,                    \* where main is: "call" | "primary_returned" |
                           \* "fallback_returned" | "returned" | "aborted" | "done"
    data,                  \* process_admin_level: the feature collection fetched
    fetches,               \* the overpass_call_with_retry calls of this level
    gdf_normalized,        \* the frame after the removal of points and explode
    gdf_maritime,          \* the frame after the overlap filter
    land_features,         \* what intersect_maritime_with_land returned, None before
    gdf_intersection,      \* the land frame after the overlap filter
    to_files_calls,        \* the calls of to_files made for this level
    exported,              \* the features to_files exported for this level
    m_returned,            \* the reference_gdf process_admin_level returns
    root_result,           \* history: the normalized root-level result of the
                           \* country being processed, None while it has none
    \* the export loop of to_files, called on its own
    w_gdf,            \* the frame the loop runs over: one row per relation
    w_formats,        \* `formats`, as given on the command line
    w_broken,         \* the driver that cannot write here, "None" if all can
    w_called,         \* whether the loop was run
    w_written,        \* the archives written, in order
    w_raised,         \* the exception that left to_files, NoException if none
    \* make_overpass_query / make_overpass_query_fallback, called on their own
    q_alpha2,         \* `alpha2`
    q_admin_level,    \* `admin_level`
    q_parent,         \* `parent_admin_level`
    q_primary,        \* what make_overpass_query returned or raised, None before
    q_fallback        \* what make_overpass_query_fallback returned or raised

retryVars == <<max_retries, initial_delay, attempt, delay, trace, rstate, retval, raised>>
filterVars == <<f_gdf, f_level, f_reference, f_min, f_called, f_result>>

exportVars == <<e_gdf, e_called, e_emitted>>

mainVars == <<max_admin_level, land_data_dir, country, m_admin_level,
              m_reference, pc, data, fetches, gdf_normalized,
              gdf_maritime, land_features, gdf_intersection, to_files_calls,
              exported, m_returned, root_result>>

writeVars == <<w_gdf, w_formats, w_broken, w_called, w_written, w_raised>>

queryVars == <<q_alpha2, q_admin_level, q_parent, q_primary, q_fallback>>

vars == <<retryVars, filterVars, exportVars, mainVars, writeVars, queryVars>>

\* What a step of one function leaves alone: the state of the others.
outsideRetry == <<filterVars, exportVars, mainVars, writeVars, queryVars>>
outsideFilter == <<retryVars, exportVars, mainVars, writeVars, queryVars>>
outsideExport == <<retryVars, filterVars, mainVars, writeVars, queryVars>>
outsideMain == <<retryVars, filterVars, exportVars, writeVars, queryVars>>
outsideQuery == <<retryVars, filterVars, exportVars, mainVars, writeVars>>
outsideWrite == <<retryVars, filterVars, exportVars, mainVars, queryVars>>

\* Optional[...]: None, or the value.
NoneValue == <<>>
Some(x) == <<x>>
IsNone(o) == Len(o) = 0
Get(o) == o[1]

\* ====================================================================
\* The geometry engine (shapely / geopandas) on the strip of cells
\* ====================================================================

\* degenerate: the engine raises on this geometry when it intersects it
\* (a self-intersecting ring, a topology exception).
Geometry(a, l, p, bad) ==
    [area |-> a, line |-> l \ a, pts |-> p \ (a \cup l), degenerate |-> bad]

Polygon(S) == Geometry(S, {}, {}, FALSE)
LineString(S) == Geometry({}, S, {}, FALSE)
Point(c) == Geometry({}, {}, {c}, FALSE)
DegeneratePolygon(S) == Geometry(S, {}, {}, TRUE)

Contiguous(S) == \A x \in S, y \in S : \A z \in x..y : z \in S

\* shapely's geom_type: a surface in one piece is a Polygon, in several
\* pieces a MultiPolygon; likewise for lines and points.
geom_type(g) ==
    CASE g.area # {} /\ g.line = {} /\ g.pts = {} ->
            IF Contiguous(g.area) THEN "Polygon" ELSE "MultiPolygon"
      [] g.area = {} /\ g.line # {} /\ g.pts = {} ->
            IF Contiguous(g.line) THEN "LineString" ELSE "MultiLineString"
      [] g.area = {} /\ g.line = {} /\ g.pts # {} ->
            IF Cardinality(g.pts) = 1 THEN "Point" ELSE "MultiPoint"
      [] OTHER -> "GeometryCollection"

extent(g) == g.area \cup g.line \cup g.pts
is_empty(g) == extent(g) = {}
area(g) == Cardinality(g.area)

intersection(a, b) ==
    Geometry(a.area \cap b.area,
             (a.line \cap extent(b)) \cup (b.line \cap extent(a)),
             (a.pts \cap extent(b)) \cup (b.pts \cap extent(a)),
             FALSE)

union(a, b) ==
    Geometry(a.area \cup b.area, a.line \cup b.line, a.pts \cup b.pts,
             a.degenerate \/ b.degenerate)

EmptyGeometry == Geometry({}, {}, {}, FALSE)

\* GeoSeries.union_all over the geometries of a sequence of rows.
RECURSIVE union_all(_)
union_all(rows) ==
    IF rows = <<>> THEN EmptyGeometry
    ELSE union(Head(rows).geometry, union_all(Tail(rows)))

MinOf(S) == CHOOSE x \in S : \A y \in S : x <= y
RunAt(S, x) == {y \in S : y >= x /\ \A z \in x..y : z \in S}

\* The maximal runs of consecutive cells of S, in ascending order: the
\* single parts of a multi-part geometry.
RECURSIVE Runs(_)
Runs(S) ==
    IF S = {} THEN <<>>
    ELSE LET r == RunAt(S, MinOf(S)) IN <<r>> \o Runs(S \ r)

\* ====================================================================
\* Rows and frames (GeoDataFrame): a frame is a sequence of rows
\* ====================================================================

Row(id, tags, g) == [id |-> id, tags |-> tags, geometry |-> g]

empty(gdf) == Len(gdf) = 0

\* gdf[column] = values
AssignColumn(row, column, value) ==
    [k \in DOMAIN row \cup {column} |-> IF k = column THEN value ELSE row[k]]

\* gdf.drop(columns=[column])
DropColumn(row, column) == [k \in DOMAIN row \ {column} |-> row[k]]

\* ====================================================================
\* utils.overpass_call_with_retry
\* ====================================================================

\* The outcome of one remote call: a response body, or an exception.
Response(body) == [exc |-> "None", code |-> 200, body |-> body]
HTTPError(code) == [exc |-> "HTTPError", code |-> code, body |-> ""]
OtherError(what) == [exc |-> what, code |-> 0, body |-> ""]
RuntimeError == [exc |-> "RuntimeError", code |-> 0, body |-> ""]
NoException == [exc |-> "None", code |-> 0, body |-> ""]
NoResult == <<"None", "">>

\* What one remote call (overpass_call, then json2geojson) can do.
Payloads == {Response(b) : b \in {"osm_a", "osm_b"}}
HTTPErrors == {HTTPError(c) : c \in {429, 504}}
OtherErrors == {OtherError(w) : w \in {"ConnectionError", "JSONDecodeError"}}

json2geojson(result) == <<"FeatureCollection", result.body>>

CallEvent(outcome) == [ev |-> "call", out |-> outcome, d |-> 0]
SleepEvent(seconds) == [ev |-> "sleep", out |-> NoException, d |-> seconds]

Calls == SelectSeq(trace, LAMBDA e : e.ev = "call")
Sleeps == SelectSeq(trace, LAMBDA e : e.ev = "sleep")

\* One iteration whose remote call succeeds: lines 110-112.
AttemptReturns ==
    /\ rstate = "loop"
    /\ attempt < max_retries
    /\ \E p \in Payloads :
        /\ trace' = Append(trace, CallEvent(p))
        /\ retval' = json2geojson(p)
    /\ rstate' = "returned"
    /\ UNCHANGED <<max_retries, initial_delay, attempt, delay, raised>>
    /\ UNCHANGED outsideRetry

\* One iteration whose remote call raises requests.exceptions.HTTPError:
\* lines 113-125.
RetryBranchConstantDelay(e) ==
    /\ trace' = trace \o <<CallEvent(e), SleepEvent(delay)>>
    /\ delay' = delay
    /\ attempt' = attempt + 1
    /\ UNCHANGED <<rstate, raised>>

RetryBranch(e) ==
    /\ trace' = trace \o <<CallEvent(e), SleepEvent(delay)>>
    /\ delay' = delay * 2
    /\ attempt' = attempt + 1
    /\ UNCHANGED <<rstate, raised>>

GiveUpBranchFirstError(e) ==
    /\ trace' = Append(trace, CallEvent(e))
    /\ raised' = IF trace = <<>> THEN e ELSE trace[1].out
    /\ rstate' = "raised"
    /\ UNCHANGED <<delay, attempt>>

GiveUpBranch(e) ==
    /\ trace' = Append(trace, CallEvent(e))
    /\ raised' = e
    /\ rstate' = "raised"
    /\ UNCHANGED <<delay, attempt>>

MayRetryAlways(att, maxr) == att < maxr

MayRetry(att, maxr) == att < maxr - 1

AttemptHTTPError ==
    /\ rstate = "loop"
    /\ attempt < max_retries
    /\ \E e \in HTTPErrors :
        IF MayRetry(attempt, max_retries) THEN RetryBranch(e) ELSE GiveUpBranch(e)
    /\ UNCHANGED <<max_retries, initial_delay, retval>>
    /\ UNCHANGED outsideRetry

AttemptOtherErrorRetried ==
    /\ rstate = "loop"
    /\ attempt < max_retries
    /\ \E e \in OtherErrors :
        IF MayRetry(attempt, max_retries) THEN RetryBranch(e) ELSE GiveUpBranch(e)
    /\ UNCHANGED <<max_retries, initial_delay, retval>>
    /\ UNCHANGED outsideRetry

\* One iteration whose remote call raises any other exception: lines 126-129.
AttemptOtherError ==
    /\ rstate = "loop"
    /\ attempt < max_retries
    /\ \E e \in OtherErrors :
        /\ trace' = Append(trace, CallEvent(e))
        /\ raised' = e
    /\ rstate' = "raised"
    /\ UNCHANGED <<max_retries, initial_delay, attempt, delay, retval>>
    /\ UNCHANGED outsideRetry

\* The loop ends without a return or a raise: line 132.
LoopFallsThrough ==
    /\ rstate = "loop"
    /\ attempt >= max_retries
    /\ raised' = RuntimeError
    /\ rstate' = "raised"
    /\ UNCHANGED <<max_retries, initial_delay, attempt, delay, trace, retval>>
    /\ UNCHANGED outsideRetry

RetryNext ==
    \/ AttemptReturns
    \/ AttemptHTTPError
    \/ AttemptOtherError
    \/ LoopFallsThrough

\* ====================================================================
\* utils.filter_by_overlap and utils.apply_overlap_filter
\* ====================================================================

\* A ratio of two areas, kept as a fraction (den > 0).
Ratio(n, d) == [num |-> n, den |-> d]
GreaterEqual(r, m) == r.num * m.den >= m.num * r.den

\* min_overlap_ratio = 0.5
Half == Ratio(1, 2)

\* `return 0.0`: the intersection is empty.
NoOverlap == Ratio(0, 1)

OnExceptionDrop == Ratio(0, 1)

\* `except Exception: return 1.0`
OnException == Ratio(1, 1)

\* calculate_overlap_ratio: geometry.intersection raises on a degenerate
\* geometry, and intersection.area / geometry.area raises ZeroDivisionError
\* when the candidate has no area.
calculate_overlap_ratio(geometry, reference_geom) ==
    IF geometry.degenerate THEN OnException
    ELSE LET inter == intersection(geometry, reference_geom)
         IN  IF is_empty(inter) THEN NoOverlap
             ELSE IF area(geometry) = 0 THEN OnException
             ELSE Ratio(area(inter), area(geometry))

RetainedStrict(row, min_overlap_ratio) ==
    ~GreaterEqual(min_overlap_ratio, row.overlap_ratio)

\* gdf["overlap_ratio"] >= min_overlap_ratio
Retained(row, min_overlap_ratio) == GreaterEqual(row.overlap_ratio, min_overlap_ratio)

\* gdf["overlap_ratio"] = gdf.geometry.apply(calculate_overlap_ratio): the
\* caller's frame with the column added.
WithOverlapRatio(gdf, reference_gdf) ==
    LET reference_geom == union_all(reference_gdf)
    IN  [i \in 1..Len(gdf) |->
            AssignColumn(gdf[i], "overlap_ratio",
                         calculate_overlap_ratio(gdf[i].geometry, reference_geom))]

DropOverlapRatio(gdf) == [i \in 1..Len(gdf) |-> DropColumn(gdf[i], "overlap_ratio")]

\* The frame filter_by_overlap returns.
filter_by_overlap(gdf, reference_gdf, min_overlap_ratio) ==
    IF empty(reference_gdf) \/ empty(gdf) THEN gdf
    ELSE DropOverlapRatio(
            SelectSeq(WithOverlapRatio(gdf, reference_gdf),
                      LAMBDA row : Retained(row, min_overlap_ratio)))

\* The caller's frame after filter_by_overlap: the column stays on it.
filter_by_overlap_argument(gdf, reference_gdf) ==
    IF empty(reference_gdf) \/ empty(gdf) THEN gdf
    ELSE WithOverlapRatio(gdf, reference_gdf)

FilterAppliesAtRoot(current_admin_level, gdf_country_reference) ==
    current_admin_level >= 2 /\ ~IsNone(gdf_country_reference)

\* `if current_admin_level > 2 and gdf_country_reference is not None`
FilterApplies(current_admin_level, gdf_country_reference) ==
    current_admin_level > 2 /\ ~IsNone(gdf_country_reference)

apply_overlap_filter(gdf, current_admin_level, gdf_country_reference) ==
    IF FilterApplies(current_admin_level, gdf_country_reference)
    THEN filter_by_overlap(gdf, Get(gdf_country_reference), Half)
    ELSE gdf

apply_overlap_filter_argument(gdf, current_admin_level, gdf_country_reference) ==
    IF FilterApplies(current_admin_level, gdf_country_reference)
    THEN filter_by_overlap_argument(gdf, Get(gdf_country_reference))
    ELSE gdf

\* --- the filter called on its own, on every small input

Subsets1(S) == SUBSET S \ {{}}

CandidateGeometries ==
    {Polygon(S) : S \in Subsets1(Cells)}
        \cup {LineString({c}) : c \in Cells}
        \cup {DegeneratePolygon(Cells)}

SeqsUpTo(S, n) == UNION {[1..k -> S] : k \in 0..n}

\* Row i of a candidate frame carries its own id and tags.
CandidateFrame(geoms) ==
    [i \in 1..Len(geoms) |-> Row(i, <<"name", i>>, geoms[i])]

CandidateFrames == {CandidateFrame(gs) : gs \in SeqsUpTo(CandidateGeometries, MaxCand)}

\* Reference frames: a country of the first k cells, in one row or in two,
\* with or without a boundary way next to it; or no row at all.
ReferenceFrames ==
    {<<>>}
        \cup {<<Row(100, "country", Polygon(1..k))>> : k \in Cells}
        \cup {<<Row(100, "country", Polygon({1})),
                Row(100, "country", Polygon(2..k))>> : k \in 2..NCells}
        \cup {<<Row(100, "country", Polygon({1})),
                Row(101, "way", LineString({2}))>>}

\* apply_overlap_filter(f_gdf, f_level, f_reference, ...)
CallApplyOverlapFilter ==
    /\ f_called = ""
    /\ f_called' = "apply_overlap_filter"
    /\ f_result' = Some(apply_overlap_filter(f_gdf, f_level, f_reference))
    /\ f_gdf' = apply_overlap_filter_argument(f_gdf, f_level, f_reference)
    /\ UNCHANGED <<f_level, f_reference, f_min>>
    /\ UNCHANGED outsideFilter

MinRatios == {Half, Ratio(2, 3)}

\* filter_by_overlap(f_gdf, f_reference, m), for a reference that is a frame
CallFilterByOverlap ==
    /\ f_called = ""
    /\ ~IsNone(f_reference)
    /\ f_called' = "filter_by_overlap"
    /\ \E m \in MinRatios :
        /\ f_min' = m
        /\ f_result' = Some(filter_by_overlap(f_gdf, Get(f_reference), m))
    /\ f_gdf' = filter_by_overlap_argument(f_gdf, Get(f_reference))
    /\ UNCHANGED <<f_level, f_reference>>
    /\ UNCHANGED outsideFilter

FilterNext ==
    \/ CallApplyOverlapFilter
    \/ CallFilterByOverlap

\* ====================================================================
\* utils.to_files: the re-aggregation by relation id, lines 346-377
\* ====================================================================

\* gdf["id"].unique(): the ids in the order of their first appearance.
RECURSIVE unique_ids(_)
unique_ids(gdf) ==
    IF gdf = <<>> THEN <<>>
    ELSE <<Head(gdf).id>>
            \o unique_ids(SelectSeq(Tail(gdf), LAMBDA row : row.id # Head(gdf).id))

\* gdf[gdf["id"] == relation_id]
relation_rows(gdf, relation_id) == SelectSeq(gdf, LAMBDA row : row.id = relation_id)

unioned_geometry_first_only(rows) == rows[1].geometry

\* relation_rows.geometry.union_all()
unioned_geometry(rows) == union_all(rows)

first_row_last(rows) == rows[Len(rows)]

\* relation_rows.iloc[0].to_dict()
first_row(rows) == rows[1]

\* One feature per relation id: the first row of the relation with the union
\* of the geometries of all of its rows.
unioned_features(gdf) ==
    LET ids == unique_ids(gdf)
    IN  [k \in 1..Len(ids) |->
            [first_row(relation_rows(gdf, ids[k]))
                EXCEPT !.geometry = unioned_geometry(relation_rows(gdf, ids[k]))]]

\* The frame the export loop of to_files runs over.
to_files_features(gdf) ==
    IF Len(gdf) > 0 THEN unioned_features(gdf) ELSE gdf

\* --- to_files called on its own, on every small frame

ExportGeometries ==
    {Polygon({c}) : c \in Cells} \cup {Polygon({1, 2}), LineString({1})}

\* Row i carries its own tags; several rows may share a relation id.
ExportFrame(ids, gs) == [i \in 1..Len(ids) |-> Row(ids[i], <<"name", i>>, gs[i])]

CallToFiles ==
    /\ ~e_called
    /\ e_called' = TRUE
    /\ e_emitted' = to_files_features(e_gdf)
    /\ UNCHANGED e_gdf
    /\ UNCHANGED outsideExport

ExportNext == CallToFiles

\* ====================================================================
\* utils.make_overpass_query, utils.make_overpass_query_fallback
\* ====================================================================

\* A query text, by what it selects.
Query(shape, alpha2, admin_level, parent_admin_level) ==
    [shape |-> shape, alpha2 |-> alpha2, admin_level |-> admin_level,
     parent_admin_level |-> parent_admin_level]

\* raise ValueError(f"Admin level {admin_level} is not supported.")
ValueError(admin_level) == Query("ValueError", 0, admin_level, 0)

make_overpass_query(alpha2, admin_level, parent_admin_level) ==
    IF admin_level = 2 THEN Query("country_relation", alpha2, 2, 0)
    ELSE IF admin_level > 2
         THEN Query("children_of_parent", alpha2, admin_level, parent_admin_level)
         ELSE ValueError(admin_level)

make_overpass_query_fallback_area_at_root(alpha2, admin_level) ==
    IF admin_level >= 2 THEN Query("relations_in_area", alpha2, admin_level, 2)
    ELSE ValueError(admin_level)

make_overpass_query_fallback(alpha2, admin_level) ==
    IF admin_level = 2 THEN make_overpass_query(alpha2, admin_level, 2)
    ELSE IF admin_level > 2
         THEN Query("relations_in_area", alpha2, admin_level, 2)
         ELSE ValueError(admin_level)

\* make_overpass_query(q_alpha2, q_admin_level, q_parent)
CallMakeOverpassQuery ==
    /\ IsNone(q_primary)
    /\ q_primary' = Some(make_overpass_query(q_alpha2, q_admin_level, q_parent))
    /\ UNCHANGED <<q_alpha2, q_admin_level, q_parent, q_fallback>>
    /\ UNCHANGED outsideQuery

\* make_overpass_query_fallback(q_alpha2, q_admin_level)
CallMakeOverpassQueryFallback ==
    /\ IsNone(q_fallback)
    /\ q_fallback' = Some(make_overpass_query_fallback(q_alpha2, q_admin_level))
    /\ UNCHANGED <<q_alpha2, q_admin_level, q_parent, q_primary>>
    /\ UNCHANGED outsideQuery

QueryNext ==
    \/ CallMakeOverpassQuery
    \/ CallMakeOverpassQueryFallback

\* ====================================================================
\* make_boundary.process_admin_level and make_boundary.main
\* ====================================================================

\* GeoDataFrame.from_features(features=data, crs=DEFAULT_CRS)
from_features(features) == features

\* gdf_maritime[gdf_maritime["geometry"].apply(lambda x: x.geom_type != "Point")]
remove_points(gdf) == SelectSeq(gdf, LAMBDA row : geom_type(row.geometry) # "Point")

RECURSIVE Singles(_)
Singles(S) == IF S = {} THEN <<>> ELSE <<{MinOf(S)}>> \o Singles(S \ {MinOf(S)})

\* The single parts of one row, each with the attributes of the row.
explode_row(row) ==
    LET g == row.geometry
        surfaces == Runs(g.area)
        lines == Runs(g.line)
        points == Singles(g.pts)
    IN  [i \in 1..Len(surfaces) |->
            [row EXCEPT !.geometry = Geometry(surfaces[i], {}, {}, g.degenerate)]]
        \o [i \in 1..Len(lines) |->
            [row EXCEPT !.geometry = Geometry({}, lines[i], {}, g.degenerate)]]
        \o [i \in 1..Len(points) |->
            [row EXCEPT !.geometry = Geometry({}, {}, points[i], g.degenerate)]]

\* gdf.explode(index_parts=False)
RECURSIVE explode(_)
explode(gdf) ==
    IF gdf = <<>> THEN <<>> ELSE explode_row(Head(gdf)) \o explode(Tail(gdf))

\* Lines 241-250.
normalize(features) == explode(remove_points(from_features(features)))

has_valid_polygons_any_row(gdf) == Len(gdf) > 0

\* bool(set(gdf.geom_type).intersection({"MultiPolygon", "Polygon"}))
has_valid_polygons(gdf) ==
    {geom_type(gdf[i].geometry) : i \in 1..Len(gdf)} \cap {"MultiPolygon", "Polygon"} # {}

MaxOf(S) == CHOOSE x \in S : \A y \in S : x >= y

\* tuple(gdf_maritime.total_bounds): the bounding box of the whole frame.
total_bounds(gdf) ==
    LET S == UNION {extent(gdf[i].geometry) : i \in 1..Len(gdf)}
    IN  IF S = {} THEN {} ELSE MinOf(S)..MaxOf(S)

\* read_file(land_data_dir, bbox=bbox): the land polygons that meet the box.
read_file(land, bbox) ==
    SelectSeq(land, LAMBDA row : extent(row.geometry) \cap bbox # {})

\* gdf_osm_land.iloc[gdf_osm_land.sindex.query(maritime_geom, predicate="intersects")]
land_subset(gdf_osm_land, maritime_geom) ==
    SelectSeq(gdf_osm_land,
              LAMBDA row : extent(row.geometry) \cap extent(maritime_geom) # {})

\* gdf_land_subset.overlay(gdf_single_maritime, how="intersection") and the
\* dissolve of its rows: the surface the feature shares with the land
\* polygons (overlay keeps the pieces that are polygons).
dissolved_geom(gdf_land_subset, maritime_geom) ==
    Polygon(UNION {gdf_land_subset[i].geometry.area \cap maritime_geom.area :
                    i \in 1..Len(gdf_land_subset)})

intersect_maritime_with_land_first_attributes(gdf, gdf_osm_land) ==
    LET land_of(row) ==
            [gdf[1] EXCEPT !.geometry =
                dissolved_geom(land_subset(gdf_osm_land, row.geometry), row.geometry)]
    IN  SelectSeq([i \in 1..Len(gdf) |-> land_of(gdf[i])],
                  LAMBDA row : ~is_empty(row.geometry))

intersect_maritime_with_land_keep_empty(gdf, gdf_osm_land) ==
    [i \in 1..Len(gdf) |->
        [gdf[i] EXCEPT !.geometry =
            dissolved_geom(land_subset(gdf_osm_land, gdf[i].geometry), gdf[i].geometry)]]

\* intersect_maritime_with_land: one land feature per maritime row whose
\* overlay is not empty, with the attributes of that row.
intersect_maritime_with_land(gdf, gdf_osm_land) ==
    LET land_of(row) ==
            [row EXCEPT !.geometry =
                dissolved_geom(land_subset(gdf_osm_land, row.geometry), row.geometry)]
    IN  SelectSeq([i \in 1..Len(gdf) |-> land_of(gdf[i])],
                  LAMBDA row : ~is_empty(row.geometry))

\* What to_files exports of a frame: one record per feature of its loop.
to_files(admin_level, alpha2, gdf, include_maritime) ==
    LET features == to_files_features(gdf)
    IN  [k \in 1..Len(features) |->
            [country |-> alpha2, admin_level |-> admin_level,
             land |-> ~include_maritime, id |-> features[k].id,
             tags |-> features[k].tags, geometry |-> features[k].geometry]]

\* --- what the remote service may answer

Country == Row(100, "country", Polygon({1, 2}))
SmallCountry == Row(100, "country", Polygon({2}))
BorderWay == Row(101, "way", LineString({1}))
BorderNode == Row(102, "node", Point(1))

\* Answers to the query of the country relation and its members.
RootCollections ==
    {<<>>, <<Country>>, <<SmallCountry>>, <<Country, BorderWay, BorderNode>>,
     <<BorderWay>>, <<BorderNode>>}

\* Features of an answer to a query of a deeper level: regions inside of
\* the country, across its border and outside of it, in one part or in
\* several, and a way.
DeepFeatures ==
    {Row(1, "inner", Polygon({1})),
     Row(2, "border", Polygon({2, 3})),
     Row(7, "wide", Polygon({1, 2, 3})),
     Row(3, "outer", Polygon({3})),
     Row(4, "islands", Polygon({1, 3})),
     Row(5, "way", LineString({2}))}

DeepCollections == SeqsUpTo(DeepFeatures, MaxFeatures)

Collections(query) ==
    IF query.shape = "country_relation" THEN RootCollections ELSE DeepCollections

\* The land polygons of the land data directory: two islands with the sea
\* between them, or two polygons side by side.
LandDatasets ==
    {<<Row(0, "land", Polygon({1})), Row(0, "land", Polygon({NCells}))>>,
     <<Row(0, "land", Polygon({1})), Row(0, "land", Polygon({2}))>>}

Fetch(query, returned, count) == [query |-> query, returned |-> returned, count |-> count]

\* overpass_call_with_retry(overpass_query, logger=logger) returns a feature
\* collection, or raises (after its retries) and ends the run.
CallOverpass(query, next_pc) ==
    \/ \E features \in Collections(query) :
        /\ data' = features
        /\ fetches' = Append(fetches, Fetch(query, TRUE, Len(features)))
        /\ pc' = next_pc
    \/ /\ fetches' = Append(fetches, Fetch(query, FALSE, 0))
       /\ pc' = "aborted"
       /\ UNCHANGED data

\* Lines 225-226.
CallPrimary ==
    /\ pc = "call"
    /\ CallOverpass(make_overpass_query(country, m_admin_level, PARENT_ADMIN_LEVEL),
                    "primary_returned")
    /\ UNCHANGED <<max_admin_level, land_data_dir, country, m_admin_level,
                   m_reference, gdf_normalized, gdf_maritime, land_features,
                   gdf_intersection, to_files_calls, exported, m_returned,
                   root_result>>
    /\ UNCHANGED outsideMain

FallbackNeededAtAnyLevel(features, admin_level) ==
    Len(features) = 0 /\ admin_level >= PARENT_ADMIN_LEVEL

\* `if len(data["features"]) == 0 and m_admin_level > PARENT_ADMIN_LEVEL`
FallbackNeeded(features, admin_level) ==
    Len(features) = 0 /\ admin_level > PARENT_ADMIN_LEVEL

\* Lines 229-234.
CallFallback ==
    /\ pc = "primary_returned"
    /\ FallbackNeeded(data, m_admin_level)
    /\ CallOverpass(make_overpass_query_fallback(country, m_admin_level),
                    "fallback_returned")
    /\ UNCHANGED <<max_admin_level, land_data_dir, country, m_admin_level,
                   m_reference, gdf_normalized, gdf_maritime, land_features,
                   gdf_intersection, to_files_calls, exported, m_returned,
                   root_result>>
    /\ UNCHANGED outsideMain

LandFrameUnfiltered(gdf) ==
    intersect_maritime_with_land(gdf, read_file(Get(land_data_dir), total_bounds(gdf)))

\* The land frame of lines 281-303, for the maritime frame `gdf`.
LandFrame(gdf) ==
    LET gdf_osm_land == read_file(Get(land_data_dir), total_bounds(gdf))
        features == intersect_maritime_with_land(gdf, gdf_osm_land)
    IN  apply_overlap_filter(features, m_admin_level, m_reference)

\* Lines 284-293: the land features of the maritime frame `gdf`.
LandFeatures(gdf) ==
    intersect_maritime_with_land(gdf, read_file(Get(land_data_dir), total_bounds(gdf)))

\* One call of to_files, by what it was given.
ToFilesCall(include_maritime, gdf) ==
    [include_maritime |-> include_maritime, rows |-> Len(gdf)]

\* Lines 236-320: the rest of process_admin_level.
ProcessFeatures ==
    /\ \/ pc = "primary_returned" /\ ~FallbackNeeded(data, m_admin_level)
       \/ pc = "fallback_returned"
    /\ pc' = "returned"
    /\ root_result' = IF m_admin_level # PARENT_ADMIN_LEVEL THEN root_result
                      ELSE IF Len(data) = 0 THEN NoneValue
                      ELSE Some(normalize(data))
    /\ IF Len(data) = 0
       THEN /\ m_returned' = NoneValue
            /\ UNCHANGED <<gdf_normalized, gdf_maritime, land_features,
                           gdf_intersection, to_files_calls, exported>>
       ELSE LET normalized == normalize(data)
                filtered == apply_overlap_filter(normalized, m_admin_level,
                                                 m_reference)
                reconciled == has_valid_polygons(filtered) /\ ~IsNone(land_data_dir)
                features == IF reconciled THEN LandFeatures(filtered) ELSE <<>>
                land == IF reconciled THEN LandFrame(filtered) ELSE <<>>
            IN  /\ gdf_normalized' = normalized
                /\ land_features' = IF reconciled THEN Some(features) ELSE NoneValue
                /\ to_files_calls' =
                    IF has_valid_polygons(filtered)
                    THEN <<ToFilesCall(TRUE, filtered)>>
                         \o (IF Len(features) > 0
                             THEN <<ToFilesCall(FALSE, land)>> ELSE <<>>)
                    ELSE <<>>
                /\ m_returned' = IF m_admin_level = PARENT_ADMIN_LEVEL
                                    THEN Some(normalized) ELSE NoneValue
                /\ gdf_maritime' = filtered
                /\ gdf_intersection' = land
                /\ exported' =
                    IF has_valid_polygons(filtered)
                    THEN to_files(m_admin_level, country, filtered, TRUE)
                         \o to_files(m_admin_level, country, land, FALSE)
                    ELSE <<>>
    /\ UNCHANGED <<max_admin_level, land_data_dir, country, m_admin_level,
                   m_reference, data, fetches>>
    /\ UNCHANGED outsideMain

ReferenceKeptAcrossCountries ==
    IF ~IsNone(m_returned) THEN m_returned ELSE m_reference

\* `gdf_country_reference: Optional[GeoDataFrame] = None` at the top of the
\* loop over the countries.
ReferenceOfNextCountry == NoneValue

\* Lines 374-405: main takes the value returned and goes on to the next
\* level, or to the next country with a reference of None.
MainLoop ==
    /\ pc = "returned"
    /\ IF m_admin_level < max_admin_level
       THEN /\ m_admin_level' = m_admin_level + 1
            /\ m_reference' =
                IF ~IsNone(m_returned) THEN m_returned ELSE m_reference
            /\ pc' = "call"
            /\ UNCHANGED <<country, root_result>>
       ELSE IF country < NCountries
       THEN /\ country' = country + 1
            /\ m_admin_level' = PARENT_ADMIN_LEVEL
            /\ m_reference' = ReferenceOfNextCountry
            /\ root_result' = NoneValue
            /\ pc' = "call"
       ELSE /\ pc' = "done"
            /\ m_reference' =
                IF ~IsNone(m_returned) THEN m_returned ELSE m_reference
            /\ UNCHANGED <<country, m_admin_level, root_result>>
    /\ data' = <<>>
    /\ fetches' = <<>>
    /\ gdf_normalized' = <<>>
    /\ gdf_maritime' = <<>>
    /\ land_features' = NoneValue
    /\ gdf_intersection' = <<>>
    /\ to_files_calls' = <<>>
    /\ exported' = <<>>
    /\ m_returned' = NoneValue
    /\ UNCHANGED <<max_admin_level, land_data_dir>>
    /\ UNCHANGED outsideMain

MainNext ==
    \/ CallPrimary
    \/ CallFallback
    \/ ProcessFeatures
    \/ MainLoop

\* ====================================================================
\* utils.to_files: the export loop, utils.gpd_to_file,
\* utils.get_geometry_coordinate_count
\* ====================================================================

\* The identifiers of the formats and their drivers.
driver_lookup ==
    [GPKG |-> "GPKG", GEOJSON |-> "GeoJSON", CSV |-> "CSV", SHP |-> "SHP",
     MAPINFO |-> "MapInfo File", KML |-> "KML", FGB |-> "FlatGeobuf",
     PGDUMP |-> "PGDUMP", PARQUET |-> "Parquet"]

\* str.upper on the identifiers a command line is given here.
upper(driver) ==
    CASE driver \in {"geojson", "GeoJSON"} -> "GEOJSON"
      [] driver = "mapinfo" -> "MAPINFO"
      [] driver = "csv" -> "CSV"
      [] driver = "xyz" -> "XYZ"

FormatIdentifiers == {"geojson", "GeoJSON", "mapinfo", "csv", "xyz"}

\* A geometry by its rings: the number of coordinates of the exterior and
\* of each interior ring of a polygon; the members of a multi-part
\* geometry; the type decides which attributes the object has.
RingPolygon(exterior, interiors) ==
    [type |-> "Polygon", exterior |-> exterior, interiors |-> interiors, geoms |-> <<>>]
RingLine(coords) ==
    [type |-> "LineString", exterior |-> coords, interiors |-> <<>>, geoms |-> <<>>]
MultiPart(type, geoms) ==
    [type |-> type, exterior |-> 0, interiors |-> <<>>, geoms |-> geoms]

RECURSIVE sum(_)
sum(seq) == IF seq = <<>> THEN 0 ELSE Head(seq) + sum(Tail(seq))

\* hasattr(geom, "exterior"), hasattr(geom, "geoms")
has_exterior(geom) == geom.type = "Polygon"
has_geoms(geom) == geom.type \in {"MultiPolygon", "GeometryCollection"}

polygon_coordinate_count(g) ==
    IF has_exterior(g) THEN g.exterior + sum(g.interiors) ELSE 0

get_geometry_coordinate_count(geom) ==
    IF has_exterior(geom) THEN geom.exterior + sum(geom.interiors)
    ELSE IF has_geoms(geom)
    THEN sum([i \in 1..Len(geom.geoms) |-> polygon_coordinate_count(geom.geoms[i])])
    ELSE 0

\* The number of coordinates above which GeoJSON is not written.
MaxGeoJSONCoordinates == 50000

skip_geojson_at_limit(coord_count) == coord_count >= MaxGeoJSONCoordinates

\* skip_geojson = coord_count > 50000
skip_geojson(coord_count) == coord_count > MaxGeoJSONCoordinates

\* The value of the id column: an integer, or the float astype made of it.
IntId(n) == [dtype |-> "int", value |-> n]
astype_float(id) == [id EXCEPT !.dtype = "float"]

gpd_to_file_argument_untouched(driver, gdf) == gdf

\* The caller's frame after gpd_to_file: the MapInfo branch assigns the id
\* column.
gpd_to_file_argument(driver, gdf) ==
    IF driver = "MapInfo File"
    THEN [i \in 1..Len(gdf) |-> [gdf[i] EXCEPT !.id = astype_float(gdf[i].id)]]
    ELSE gdf

\* The archive gpd_to_file writes: the frame as the driver was given it.
Archive(position, driver, gdf) ==
    [position |-> position, driver |-> driver, id |-> gdf[1].id, tags |-> gdf[1].tags]

KeyError == OtherError("KeyError")
WriteError == OtherError("WriteError")
Outcome(written, exception) == [written |-> written, raised |-> exception]

\* `for driver in formats:` for the feature at `position`: the archives
\* written, and the exception that ended the loop if one did.
RECURSIVE write_formats(_, _, _, _)
write_formats(feature_gdf, position, formats, skip) ==
    IF formats = <<>> THEN Outcome(<<>>, NoException)
    ELSE LET driver == Head(formats) IN
        IF skip /\ upper(driver) = "GEOJSON"
        THEN write_formats(feature_gdf, position, Tail(formats), skip)
        ELSE IF upper(driver) \notin DOMAIN driver_lookup
        THEN Outcome(<<>>, KeyError)
        ELSE LET d == driver_lookup[upper(driver)]
                 after == gpd_to_file_argument(d, feature_gdf)
             IN  IF d = w_broken THEN Outcome(<<>>, WriteError)
                 ELSE LET rest == write_formats(after, position, Tail(formats), skip)
                      IN  Outcome(<<Archive(position, d, after)>> \o rest.written,
                                  rest.raised)

\* Lines 380-419: the loop over the rows of the frame, from row `position`.
RECURSIVE write_features(_, _, _)
write_features(gdf, position, formats) ==
    IF position > Len(gdf) THEN Outcome(<<>>, NoException)
    ELSE LET row == gdf[position]
             feature_gdf == <<row>>
             coord_count == get_geometry_coordinate_count(row.geometry)
             this == write_formats(feature_gdf, position, formats, skip_geojson(coord_count))
         IN  IF this.raised # NoException THEN this
             ELSE LET rest == write_features(gdf, position + 1, formats)
                  IN  Outcome(this.written \o rest.written, rest.raised)

\* --- the frames and the command lines of this specification

SmallPolygon == RingPolygon(4, <<>>)
HalfPolygon == RingPolygon(25000, <<>>)

WriteGeometries ==
    {RingPolygon(49996, <<4>>), RingPolygon(49996, <<5>>), RingPolygon(50001, <<>>),
     SmallPolygon,
     MultiPart("MultiPolygon", <<HalfPolygon, HalfPolygon>>),
     MultiPart("MultiPolygon", <<HalfPolygon, RingPolygon(25000, <<4>>)>>),
     MultiPart("GeometryCollection", <<RingLine(60000), SmallPolygon>>)}

\* Row k is the feature of relation k.
WriteFrame(geoms) == [k \in 1..Len(geoms) |-> Row(IntId(k), <<"name", k>>, geoms[k])]

BrokenDrivers == {"None", "CSV"}

CallToFilesLoop ==
    /\ ~w_called
    /\ w_called' = TRUE
    /\ LET outcome == write_features(w_gdf, 1, w_formats)
       IN  /\ w_written' = outcome.written
           /\ w_raised' = outcome.raised
    /\ UNCHANGED <<w_gdf, w_formats, w_broken>>
    /\ UNCHANGED outsideWrite

WriteNext == CallToFilesLoop

\* ====================================================================
\* Specifications
\* ====================================================================

\* Each specification runs one part of the program on its inputs; the state
\* of the parts it does not run is fixed (nothing called yet).

InitRetry ==
    /\ q_alpha2 = 0 /\ q_admin_level = PARENT_ADMIN_LEVEL /\ q_parent = PARENT_ADMIN_LEVEL
    /\ q_primary = NoneValue /\ q_fallback = NoneValue
    /\ w_gdf = <<>> /\ w_formats = <<>> /\ w_broken = "None" /\ w_called = FALSE
    /\ w_written = <<>> /\ w_raised = NoException
    /\ max_admin_level = PARENT_ADMIN_LEVEL /\ land_data_dir = NoneValue /\ country = 0
    /\ m_admin_level = PARENT_ADMIN_LEVEL /\ m_reference = NoneValue
    /\ pc = "idle" /\ data = <<>> /\ fetches = <<>> /\ gdf_normalized = <<>>
    /\ gdf_maritime = <<>> /\ gdf_intersection = <<>> /\ exported = <<>>
    /\ land_features = NoneValue /\ to_files_calls = <<>> /\ root_result = NoneValue
    /\ m_returned = NoneValue
    /\ f_gdf = <<>> /\ f_level = PARENT_ADMIN_LEVEL /\ f_reference = NoneValue
    /\ f_min = Half /\ f_called = "" /\ f_result = NoneValue
    /\ e_gdf = <<>> /\ e_called = FALSE /\ e_emitted = <<>>
    /\ max_retries \in 0..MaxRetriesBound
    /\ initial_delay \in {1, 5}
    /\ attempt = 0
    /\ delay = initial_delay
    /\ trace = <<>>
    /\ rstate = "loop"
    /\ retval = NoResult
    /\ raised = NoException

SpecRetry == InitRetry /\ [][RetryNext]_vars

InitExport ==
    /\ q_alpha2 = 0 /\ q_admin_level = PARENT_ADMIN_LEVEL /\ q_parent = PARENT_ADMIN_LEVEL
    /\ q_primary = NoneValue /\ q_fallback = NoneValue
    /\ w_gdf = <<>> /\ w_formats = <<>> /\ w_broken = "None" /\ w_called = FALSE
    /\ w_written = <<>> /\ w_raised = NoException
    /\ max_admin_level = PARENT_ADMIN_LEVEL /\ land_data_dir = NoneValue /\ country = 0
    /\ m_admin_level = PARENT_ADMIN_LEVEL /\ m_reference = NoneValue
    /\ pc = "idle" /\ data = <<>> /\ fetches = <<>> /\ gdf_normalized = <<>>
    /\ gdf_maritime = <<>> /\ gdf_intersection = <<>> /\ exported = <<>>
    /\ land_features = NoneValue /\ to_files_calls = <<>> /\ root_result = NoneValue
    /\ m_returned = NoneValue
    /\ max_retries = 0 /\ initial_delay = 0 /\ attempt = 0 /\ delay = 0
    /\ trace = <<>> /\ rstate = "idle" /\ retval = NoResult /\ raised = NoException
    /\ f_gdf = <<>> /\ f_level = PARENT_ADMIN_LEVEL /\ f_reference = NoneValue
    /\ f_min = Half /\ f_called = "" /\ f_result = NoneValue
    /\ \E k \in 0..MaxRows :
        \E ids \in [1..k -> 1..MaxId], gs \in [1..k -> ExportGeometries] :
            e_gdf = ExportFrame(ids, gs)
    /\ e_called = FALSE
    /\ e_emitted = <<>>

\* The whole run of main: the states before the first country.
Init ==
    /\ q_alpha2 = 0 /\ q_admin_level = PARENT_ADMIN_LEVEL /\ q_parent = PARENT_ADMIN_LEVEL
    /\ q_primary = NoneValue /\ q_fallback = NoneValue
    /\ w_gdf = <<>> /\ w_formats = <<>> /\ w_broken = "None" /\ w_called = FALSE
    /\ w_written = <<>> /\ w_raised = NoException
    /\ max_retries = 0 /\ initial_delay = 0 /\ attempt = 0 /\ delay = 0
    /\ trace = <<>> /\ rstate = "idle" /\ retval = NoResult /\ raised = NoException
    /\ f_gdf = <<>> /\ f_level = PARENT_ADMIN_LEVEL /\ f_reference = NoneValue
    /\ f_min = Half /\ f_called = "" /\ f_result = NoneValue
    /\ e_gdf = <<>> /\ e_called = FALSE /\ e_emitted = <<>>
    /\ max_admin_level \in PARENT_ADMIN_LEVEL..MaxLevel
    /\ land_data_dir \in {NoneValue} \cup {Some(land) : land \in LandDatasets}
    /\ country = 1
    /\ m_admin_level = PARENT_ADMIN_LEVEL
    /\ m_reference = NoneValue
    /\ pc = "call"
    /\ data = <<>>
    /\ fetches = <<>>
    /\ gdf_normalized = <<>>
    /\ gdf_maritime = <<>>
    /\ land_features = NoneValue
    /\ gdf_intersection = <<>>
    /\ to_files_calls = <<>>
    /\ exported = <<>>
    /\ m_returned = NoneValue
    /\ root_result = NoneValue

Spec == Init /\ [][MainNext]_vars

InitWrite ==
    /\ q_alpha2 = 0 /\ q_admin_level = PARENT_ADMIN_LEVEL /\ q_parent = PARENT_ADMIN_LEVEL
    /\ q_primary = NoneValue /\ q_fallback = NoneValue
    /\ max_retries = 0 /\ initial_delay = 0 /\ attempt = 0 /\ delay = 0
    /\ trace = <<>> /\ rstate = "idle" /\ retval = NoResult /\ raised = NoException
    /\ f_gdf = <<>> /\ f_level = PARENT_ADMIN_LEVEL /\ f_reference = NoneValue
    /\ f_min = Half /\ f_called = "" /\ f_result = NoneValue
    /\ e_gdf = <<>> /\ e_called = FALSE /\ e_emitted = <<>>
    /\ max_admin_level = PARENT_ADMIN_LEVEL /\ land_data_dir = NoneValue /\ country = 0
    /\ m_admin_level = PARENT_ADMIN_LEVEL /\ m_reference = NoneValue
    /\ pc = "idle" /\ data = <<>> /\ fetches = <<>> /\ gdf_normalized = <<>>
    /\ gdf_maritime = <<>> /\ gdf_intersection = <<>> /\ exported = <<>>
    /\ land_features = NoneValue /\ to_files_calls = <<>> /\ root_result = NoneValue
    /\ m_returned = NoneValue
    /\ \E n \in 0..MaxFeatures : \E geoms \in [1..n -> WriteGeometries] :
        w_gdf = WriteFrame(geoms)
    /\ \E n \in 0..MaxFormats : w_formats \in [1..n -> FormatIdentifiers]
    /\ w_broken \in BrokenDrivers
    /\ w_called = FALSE
    /\ w_written = <<>>
    /\ w_raised = NoException

SpecWrite == InitWrite /\ [][WriteNext]_vars

InitQuery ==
    /\ max_retries = 0 /\ initial_delay = 0 /\ attempt = 0 /\ delay = 0
    /\ trace = <<>> /\ rstate = "idle" /\ retval = NoResult /\ raised = NoException
    /\ f_gdf = <<>> /\ f_level = PARENT_ADMIN_LEVEL /\ f_reference = NoneValue
    /\ f_min = Half /\ f_called = "" /\ f_result = NoneValue
    /\ e_gdf = <<>> /\ e_called = FALSE /\ e_emitted = <<>>
    /\ max_admin_level = PARENT_ADMIN_LEVEL /\ land_data_dir = NoneValue /\ country = 0
    /\ m_admin_level = PARENT_ADMIN_LEVEL /\ m_reference = NoneValue
    /\ pc = "idle" /\ data = <<>> /\ fetches = <<>> /\ gdf_normalized = <<>>
    /\ gdf_maritime = <<>> /\ gdf_intersection = <<>> /\ exported = <<>>
    /\ land_features = NoneValue /\ to_files_calls = <<>> /\ root_result = NoneValue
    /\ m_returned = NoneValue
    /\ w_gdf = <<>> /\ w_formats = <<>> /\ w_broken = "None" /\ w_called = FALSE
    /\ w_written = <<>> /\ w_raised = NoException
    /\ q_alpha2 \in 1..NCountries
    /\ q_admin_level \in (-1)..(MaxLevel + 1)
    /\ q_parent \in 1..MaxLevel
    /\ q_primary = NoneValue
    /\ q_fallback = NoneValue

SpecQuery == InitQuery /\ [][QueryNext]_vars

SpecExport == InitExport /\ [][ExportNext]_vars

InitFilter ==
    /\ q_alpha2 = 0 /\ q_admin_level = PARENT_ADMIN_LEVEL /\ q_parent = PARENT_ADMIN_LEVEL
    /\ q_primary = NoneValue /\ q_fallback = NoneValue
    /\ w_gdf = <<>> /\ w_formats = <<>> /\ w_broken = "None" /\ w_called = FALSE
    /\ w_written = <<>> /\ w_raised = NoException
    /\ max_admin_level = PARENT_ADMIN_LEVEL /\ land_data_dir = NoneValue /\ country = 0
    /\ m_admin_level = PARENT_ADMIN_LEVEL /\ m_reference = NoneValue
    /\ pc = "idle" /\ data = <<>> /\ fetches = <<>> /\ gdf_normalized = <<>>
    /\ gdf_maritime = <<>> /\ gdf_intersection = <<>> /\ exported = <<>>
    /\ land_features = NoneValue /\ to_files_calls = <<>> /\ root_result = NoneValue
    /\ m_returned = NoneValue
    /\ max_retries = 0 /\ initial_delay = 0 /\ attempt = 0 /\ delay = 0
    /\ trace = <<>> /\ rstate = "idle" /\ retval = NoResult /\ raised = NoException
    /\ e_gdf = <<>> /\ e_called = FALSE /\ e_emitted = <<>>
    /\ f_gdf \in CandidateFrames
    /\ f_level \in {PARENT_ADMIN_LEVEL, PARENT_ADMIN_LEVEL + 1}
    /\ f_reference \in {NoneValue} \cup {Some(r) : r \in ReferenceFrames}
    /\ f_min = Half
    /\ f_called = ""
    /\ f_result = NoneValue

SpecFilter == InitFilter /\ [][FilterNext]_vars

\* --------------------------------------------------------------------
\* Claims about overpass_call_with_retry
\* --------------------------------------------------------------------
RECURSIVE Pow2(_)
Pow2(k) == IF k = 0 THEN 1 ELSE 2 * Pow2(k - 1)

IsHTTPError(x) == x \in HTTPErrors

\* C1: with max_retries >= 1 the call makes at most max_retries attempts,
\* an attempt is followed by another one only after an HTTPError, exactly one
\* sleep separates two consecutive attempts (the trace alternates call,
\* sleep, call, ... and ends with a call once the function is left), the
\* k-th sleep lasts initial_delay * 2^(k-1), and two HTTPErrors followed by a
\* success return the result after exactly the two sleeps d and 2d.
C1_BoundedBackoff ==
    max_retries >= 1 =>
        /\ Len(Calls) <= max_retries
        /\ \A i \in 1..Len(trace) :
            /\ trace[i].ev = (IF i % 2 = 1 THEN "call" ELSE "sleep")
            /\ (trace[i].ev = "call" /\ i < Len(trace)) => IsHTTPError(trace[i].out)
        /\ (rstate # "loop") => (trace # <<>> /\ trace[Len(trace)].ev = "call")
        /\ (rstate = "loop") => Len(Sleeps) = Len(Calls)
        /\ \A k \in 1..Len(Sleeps) : Sleeps[k].d = initial_delay * Pow2(k - 1)
        /\ ( /\ Len(Calls) = 3
             /\ IsHTTPError(Calls[1].out)
             /\ IsHTTPError(Calls[2].out)
             /\ Calls[3].out \in Payloads )
           => ( /\ rstate = "returned"
                /\ retval = json2geojson(Calls[3].out)
                /\ [k \in 1..Len(Sleeps) |-> Sleeps[k].d]
                     = <<initial_delay, 2 * initial_delay>> )

\* Two HTTPErrors, then a success, with the default delay: sleeps of 5 and 10.
C1_Witness ==
    /\ rstate = "returned"
    /\ initial_delay = 5
    /\ Len(Calls) = 3
    /\ [k \in 1..Len(Sleeps) |-> Sleeps[k].d] = <<5, 10>>

\* C2: an exception that is no HTTPError ends the call on the attempt where
\* it occurs: it is the last event of the trace (no sleep and no remote call
\* follows) and it is the exception raised, whatever the attempt number.
C2_OtherErrorNotRetried ==
    \A i \in 1..Len(trace) :
        (trace[i].ev = "call" /\ trace[i].out \in OtherErrors) =>
            /\ i = Len(trace)
            /\ rstate = "raised"
            /\ raised = trace[i].out

\* A non-transient error on the second attempt, after one retry.
C2_Witness ==
    /\ rstate = "raised"
    /\ raised \in OtherErrors
    /\ Len(Calls) = 2
    /\ Len(Sleeps) = 1

\* C3: when all max_retries attempts fail with an HTTPError, the exception
\* raised is the one of the last attempt, after max_retries remote calls and
\* max_retries - 1 sleeps, the last event being the failed call.
C3_LastErrorAfterExhaustion ==
    ( /\ max_retries >= 1
      /\ Len(Calls) = max_retries
      /\ \A i \in 1..Len(Calls) : IsHTTPError(Calls[i].out) )
    => ( /\ rstate = "raised"
         /\ raised = Calls[max_retries].out
         /\ Len(Sleeps) = max_retries - 1
         /\ trace[Len(trace)].ev = "call" )

\* Three failed attempts whose first and last errors differ.
C3_Witness ==
    /\ max_retries = 3
    /\ rstate = "raised"
    /\ Len(Calls) = 3
    /\ \A i \in 1..3 : IsHTTPError(Calls[i].out)
    /\ Calls[1].out # Calls[3].out
    /\ raised = Calls[3].out

\* --------------------------------------------------------------------
\* Claims about the overlap filter
\* --------------------------------------------------------------------

\* The candidates as the caller passed them (without the helper column).
Candidates == [i \in 1..Len(f_gdf) |-> Row(f_gdf[i].id, f_gdf[i].tags, f_gdf[i].geometry)]

ReferenceRows == IF IsNone(f_reference) THEN <<>> ELSE Get(f_reference)
ReferenceSurface == UNION {ReferenceRows[i].geometry.area : i \in 1..Len(ReferenceRows)}
ReferenceExtent == UNION {extent(ReferenceRows[i].geometry) : i \in 1..Len(ReferenceRows)}

OverlapArea(c) == Cardinality(c.geometry.area \cap ReferenceSurface)
OwnArea(c) == Cardinality(c.geometry.area)

\* The computation of the ratio fails: the engine raises on the candidate,
\* or the candidate has no area while its intersection is not empty.
GeometricError(c) ==
    \/ c.geometry.degenerate
    \/ OwnArea(c) = 0 /\ extent(c.geometry) \cap ReferenceExtent # {}

\* area(c /\ reference) / area(c) >= min_overlap_ratio (1/2 unless the
\* caller of filter_by_overlap says otherwise)
EnoughOverlap(c) ==
    OwnArea(c) > 0 /\ f_min.den * OverlapArea(c) >= f_min.num * OwnArea(c)

FilterCalled == f_called # ""
FilterRan ==
    /\ FilterCalled
    /\ f_called = "apply_overlap_filter" => f_level > PARENT_ADMIN_LEVEL
    /\ ReferenceRows # <<>>
    /\ Candidates # <<>>

InResult(c) == \E j \in 1..Len(Get(f_result)) : Get(f_result)[j] = c

\* C6: for a non-empty candidate frame and a non-empty reference the filter
\* returns the candidates whose overlap ratio is >= min_overlap_ratio (1/2
\* by default, the value itself included), and those whose ratio cannot be
\* computed, in their original order and with their attributes; a candidate
\* with a smaller ratio and no geometric error is not returned.
C6_ExactlyTheOverlapping ==
    FilterRan =>
        Get(f_result) =
            SelectSeq(Candidates, LAMBDA c : GeometricError(c) \/ EnoughOverlap(c))

\* A candidate with a third of its area in the reference is dropped and the
\* next one, with exactly half of it in the reference, is returned.
C6_Witness ==
    /\ FilterRan
    /\ f_min = Half
    /\ Len(Candidates) = 2
    /\ OverlapArea(Candidates[1]) > 0
    /\ 3 * OverlapArea(Candidates[1]) = OwnArea(Candidates[1])
    /\ 2 * OverlapArea(Candidates[2]) = OwnArea(Candidates[2])
    /\ OwnArea(Candidates[2]) > 0
    /\ Get(f_result) = <<Candidates[2]>>

NoOpCase ==
    \/ Candidates = <<>>
    \/ IsNone(f_reference)
    \/ ReferenceRows = <<>>
    \/ f_called = "apply_overlap_filter" /\ f_level = PARENT_ADMIN_LEVEL

\* C7: with no candidate, with no reference or an empty one, or at the root
\* level, the frame returned is the candidate frame, untouched.
C7_NoOpCases ==
    (FilterCalled /\ NoOpCase) =>
        /\ Get(f_result) = Candidates
        /\ \A i \in 1..Len(f_gdf) : DOMAIN f_gdf[i] = {"id", "tags", "geometry"}

\* At the root level, with a reference, a candidate wholly outside of the
\* reference is returned.
C7_Witness ==
    /\ f_called = "apply_overlap_filter"
    /\ f_level = PARENT_ADMIN_LEVEL
    /\ ReferenceRows # <<>>
    /\ \E i \in 1..Len(Candidates) :
        /\ OwnArea(Candidates[i]) > 0
        /\ OverlapArea(Candidates[i]) = 0
        /\ InResult(Candidates[i])

\* C8: a candidate whose ratio cannot be computed is returned, the call
\* itself returns, and every other candidate is returned exactly when its
\* own ratio is >= min_overlap_ratio.
C8_FailOpen ==
    FilterRan =>
        \A i \in 1..Len(Candidates) :
            IF GeometricError(Candidates[i])
            THEN InResult(Candidates[i])
            ELSE InResult(Candidates[i]) <=> EnoughOverlap(Candidates[i])

\* A way without area that crosses the reference is returned while the
\* polygon next to it, outside of the reference, is dropped.
C8_Witness ==
    /\ FilterRan
    /\ Len(Candidates) = 2
    /\ OwnArea(Candidates[1]) = 0
    /\ ~Candidates[1].geometry.degenerate
    /\ GeometricError(Candidates[1])
    /\ ~GeometricError(Candidates[2])
    /\ Get(f_result) = <<Candidates[1]>>

\* --------------------------------------------------------------------
\* Claims about the re-aggregation of to_files
\* --------------------------------------------------------------------

InputIds == {e_gdf[i].id : i \in 1..Len(e_gdf)}
PartsOf(id) == {i \in 1..Len(e_gdf) : e_gdf[i].id = id}
FirstPartOf(id) == MinOf(PartsOf(id))
SurfaceOf(id) == UNION {e_gdf[i].geometry.area : i \in PartsOf(id)}
LinesOf(id) == UNION {e_gdf[i].geometry.line : i \in PartsOf(id)}

\* C10: to_files emits exactly one feature per distinct relation id of its
\* input; its geometry is the union of all input parts with that id, its
\* attributes are those of the first input part with that id, and no two
\* emitted features share an id.
C10_OneFeaturePerRelation ==
    e_called =>
        /\ {e_emitted[k].id : k \in 1..Len(e_emitted)} = InputIds
        /\ Len(e_emitted) = Cardinality(InputIds)
        /\ \A k \in 1..Len(e_emitted), j \in 1..Len(e_emitted) :
            e_emitted[k].id = e_emitted[j].id => k = j
        /\ \A k \in 1..Len(e_emitted) :
            LET id == e_emitted[k].id
            IN  /\ e_emitted[k].geometry.area = SurfaceOf(id)
                /\ e_emitted[k].geometry.line = LinesOf(id) \ SurfaceOf(id)
                /\ e_emitted[k].tags = e_gdf[FirstPartOf(id)].tags

\* Three rows with the ids 1, 2, 1: two features, the first one with the
\* union of the two distinct parts of relation 1 and the tags of row 1.
C10_Witness ==
    /\ e_called
    /\ Len(e_gdf) = 3
    /\ e_gdf[1].id = e_gdf[3].id
    /\ e_gdf[1].id # e_gdf[2].id
    /\ e_gdf[1].geometry.area # {}
    /\ e_gdf[3].geometry.area # {}
    /\ e_gdf[1].geometry.area \cap e_gdf[3].geometry.area = {}
    /\ Len(e_emitted) = 2
    /\ e_emitted[1].geometry.area = e_gdf[1].geometry.area \cup e_gdf[3].geometry.area
    /\ e_emitted[1].tags = e_gdf[1].tags

\* --------------------------------------------------------------------
\* The run of main
\* --------------------------------------------------------------------

LevelEnded == pc \in {"returned", "aborted"}
DeeperLevel == m_admin_level > PARENT_ADMIN_LEVEL
PrimaryReturnedNothing ==
    Len(fetches) >= 1 /\ fetches[1].returned /\ fetches[1].count = 0

\* C4: a level makes at most two fetch calls; the first is never the
\* area-based query; a second call is made exactly when the level is
\* deeper than the root level and the primary query returned zero
\* features, and it is the area-based fallback query.
C4_FallbackExactlyOnce ==
    /\ Len(fetches) <= 2
    /\ Len(fetches) >= 1 => fetches[1].query.shape # "relations_in_area"
    /\ Len(fetches) = 2 =>
        /\ fetches[2].query.shape = "relations_in_area"
        /\ DeeperLevel /\ PrimaryReturnedNothing
    /\ LevelEnded => (Len(fetches) = 2 <=> (DeeperLevel /\ PrimaryReturnedNothing))

\* A deeper level whose primary query found nothing and whose fallback
\* found the features that were then exported.
C4_Witness ==
    /\ pc = "returned" /\ DeeperLevel /\ Len(fetches) = 2
    /\ fetches[2].count > 0 /\ Len(exported) > 0

ReferenceOfCountry == IF IsNone(m_reference) THEN <<>> ELSE Get(m_reference)
CountrySurface ==
    UNION {ReferenceOfCountry[i].geometry.area : i \in 1..Len(ReferenceOfCountry)}
CountryExtent ==
    UNION {extent(ReferenceOfCountry[i].geometry) : i \in 1..Len(ReferenceOfCountry)}

\* At least half of the area of g lies in the reference of the country.
MostlyInCountry(g) ==
    /\ Cardinality(g.area) > 0
    /\ 2 * Cardinality(g.area \cap CountrySurface) >= Cardinality(g.area)

\* The ratio of g could not be computed: it meets the reference and has no area.
RatioFailed(g) == Cardinality(g.area) = 0 /\ extent(g) \cap CountryExtent # {}

DeeperLevelExported == pc = "returned" /\ DeeperLevel

\* C5 as stated: every feature exported at a deeper level, maritime or
\* land, has at least half of its area in the level-2 reference of its
\* country (or hit a geometric error), whatever the queries returned.
C5_EveryExportFiltered ==
    DeeperLevelExported =>
        \A k \in 1..Len(exported) :
            MostlyInCountry(exported[k].geometry) \/ RatioFailed(exported[k].geometry)

\* C5, amended: when the country has a reference with at least one row,
\* every feature exported at a deeper level, maritime or land, has at
\* least half of its area in that reference or hit a geometric error;
\* when the country has no reference (the root-level query returned no
\* features) or one without rows (it returned only points), the features
\* of the deeper level are exported unfiltered.
C5_ExportFilteredWhenReferenceHasRows ==
    DeeperLevelExported =>
        IF empty(ReferenceOfCountry)
        THEN gdf_maritime = gdf_normalized
        ELSE \A k \in 1..Len(exported) :
                MostlyInCountry(exported[k].geometry) \/ RatioFailed(exported[k].geometry)

\* A deeper level of a country with a reference: the filter dropped a row
\* of the maritime frame and a row of the land frame, and both a maritime
\* and a land feature were exported.
C5_Witness ==
    /\ DeeperLevelExported
    /\ ~empty(ReferenceOfCountry)
    /\ Len(gdf_maritime) < Len(gdf_normalized)
    /\ \E k \in 1..Len(exported) : exported[k].land
    /\ \E k \in 1..Len(exported) : ~exported[k].land
    /\ ~IsNone(land_data_dir)
    /\ Len(gdf_intersection) <
        Len(intersect_maritime_with_land(gdf_maritime, Get(land_data_dir)))

PolygonTypes == {"Polygon", "MultiPolygon"}

\* C9 as stated: after the removal of points and explode, every row that
\* reaches the overlap filter, and every feature that is exported, is a
\* Polygon or a MultiPolygon, whatever the remote service returned.
C9_OnlyPolygonsAfterNormalization ==
    pc = "returned" =>
        /\ \A i \in 1..Len(gdf_normalized) :
            geom_type(gdf_normalized[i].geometry) \in PolygonTypes
        /\ \A i \in 1..Len(gdf_maritime) :
            geom_type(gdf_maritime[i].geometry) \in PolygonTypes
        /\ \A k \in 1..Len(exported) :
            geom_type(exported[k].geometry) \in PolygonTypes

\* --------------------------------------------------------------------
\* Land reconciliation
\* --------------------------------------------------------------------

LandSurface ==
    IF IsNone(land_data_dir) THEN {}
    ELSE UNION {Get(land_data_dir)[i].geometry.area : i \in 1..Len(Get(land_data_dir))}

\* The land feature o is made of the maritime row m alone.
DerivedFrom(o, m) ==
    /\ o.id = m.id
    /\ o.tags = m.tags
    /\ o.geometry.area \subseteq (m.geometry.area \cap LandSurface)
    /\ o.geometry.line = {} /\ o.geometry.pts = {}

\* Each feature of `out` is derived from a row of `inp` of its own, in order.
RECURSIVE DerivedInOrder(_, _)
DerivedInOrder(out, inp) ==
    IF out = <<>> THEN TRUE
    ELSE IF inp = <<>> THEN FALSE
    ELSE \/ DerivedFrom(Head(out), Head(inp)) /\ DerivedInOrder(Tail(out), Tail(inp))
         \/ DerivedInOrder(out, Tail(inp))

Reconciled == pc = "returned" /\ ~IsNone(land_features)

\* C11: every land feature returned by intersect_maritime_with_land is
\* derived from one maritime row of its own: it has the id and the tags of
\* that row, its geometry lies in the geometry of that row intersected
\* with the land polygons, the features follow the order of the rows, and
\* there are no more features than rows.
C11_LandFeatureFromOneMaritimeRow ==
    Reconciled =>
        /\ Len(Get(land_features)) <= Len(gdf_maritime)
        /\ DerivedInOrder(Get(land_features), gdf_maritime)

\* Several land features, fewer than maritime rows, one of them smaller
\* than every maritime row.
C11_Witness ==
    /\ Reconciled
    /\ Len(Get(land_features)) >= 2
    /\ Len(Get(land_features)) < Len(gdf_maritime)
    /\ \E i \in 1..Len(Get(land_features)) :
        \A j \in 1..Len(gdf_maritime) :
            Get(land_features)[i].geometry # gdf_maritime[j].geometry
    /\ \E i, j \in 1..Len(gdf_maritime) : gdf_maritime[i].id # gdf_maritime[j].id

HasLand(g) == g.area \cap LandSurface # {}

MaritimeExports == {k \in 1..Len(exported) : ~exported[k].land}
LandExports == {k \in 1..Len(exported) : exported[k].land}

\* C12: a land feature is exported for a relation only if the maritime
\* feature of that relation was exported for the same country and level
\* and shares surface with the land polygons; the land features returned
\* by the reconciliation are exactly as many as the maritime rows that
\* share surface with the land polygons, none of them is empty, and when
\* no maritime row shares surface with them to_files is not called for land.
C12_LandOnlyWhereMaritimeMeetsLand ==
    pc = "returned" =>
        /\ \A l \in LandExports :
            /\ ~is_empty(exported[l].geometry)
            /\ \E m \in MaritimeExports :
                /\ exported[m].id = exported[l].id
                /\ exported[m].country = exported[l].country
                /\ exported[m].admin_level = exported[l].admin_level
                /\ HasLand(exported[m].geometry)
                /\ exported[l].geometry.area \subseteq
                        (exported[m].geometry.area \cap LandSurface)
        /\ ~IsNone(land_features) =>
            /\ \A i \in 1..Len(Get(land_features)) :
                ~is_empty(Get(land_features)[i].geometry)
            /\ Len(Get(land_features)) =
                Cardinality({j \in 1..Len(gdf_maritime) : HasLand(gdf_maritime[j].geometry)})
        /\ (\A j \in 1..Len(gdf_maritime) : ~HasLand(gdf_maritime[j].geometry)) =>
            \A c \in 1..Len(to_files_calls) : to_files_calls[c].include_maritime

\* A level with land polygons where one exported relation has a land
\* feature and another, away from the land polygons, has none.
C12_Witness ==
    /\ Reconciled
    /\ LandExports # {}
    /\ \E m \in MaritimeExports :
        /\ ~HasLand(exported[m].geometry)
        /\ geom_type(exported[m].geometry) = "Polygon"
        /\ \A l \in LandExports : exported[l].id # exported[m].id

\* --------------------------------------------------------------------
\* Levels without features or without polygons
\* --------------------------------------------------------------------

NoPolygonLeft ==
    \A i \in 1..Len(gdf_maritime) : geom_type(gdf_maritime[i].geometry) \notin PolygonTypes

NothingDone == to_files_calls = <<>> /\ exported = <<>> /\ IsNone(land_features)

\* C17: when a level yields no features, or no Polygon or MultiPolygon is
\* left after the filter, process_admin_level calls to_files for neither
\* frame and does not reconcile with land; the level returns (a run ends
\* early only when a fetch raised); without features it returns None, and
\* at the root level with features it returns the normalized frame also
\* when that frame has no polygon.
C17_NothingExportedWithoutPolygons ==
    /\ pc = "returned" =>
        /\ (Len(data) = 0 \/ NoPolygonLeft) => NothingDone
        /\ Len(data) = 0 => IsNone(m_returned)
        /\ (Len(data) > 0 /\ m_admin_level = PARENT_ADMIN_LEVEL) =>
            m_returned = Some(gdf_normalized)
    /\ pc = "aborted" => ~fetches[Len(fetches)].returned

\* The root level of a country whose answer has a way and no polygon,
\* with land polygons at hand: nothing is exported, the frame is returned.
C17_Witness ==
    /\ pc = "returned" /\ m_admin_level = PARENT_ADMIN_LEVEL
    /\ ~IsNone(land_data_dir)
    /\ Len(gdf_maritime) > 0 /\ NoPolygonLeft
    /\ NothingDone
    /\ m_returned = Some(gdf_maritime)

\* --------------------------------------------------------------------
\* The reference of a country
\* --------------------------------------------------------------------

\* C15: while a level deeper than the root level of a country is
\* processed, main's reference is the normalized, unfiltered root-level
\* result of that same country (None when its root-level query had no
\* features), from before the first deeper level reads it until the
\* country is left; while the root level of a country is processed the
\* reference is None, whatever the countries before it left behind.
C15_ReferenceOfSameCountry ==
    /\ (m_admin_level > PARENT_ADMIN_LEVEL /\ pc # "done") => m_reference = root_result
    /\ (m_admin_level = PARENT_ADMIN_LEVEL /\ pc # "done") => IsNone(m_reference)

\* The second country, whose root-level query had no features, at a
\* deeper level that has features: no reference, and all of them kept.
C15_Witness ==
    /\ country > 1 /\ m_admin_level > PARENT_ADMIN_LEVEL /\ pc = "returned"
    /\ IsNone(root_result) /\ IsNone(m_reference)
    /\ Len(gdf_maritime) > 0 /\ gdf_maritime = gdf_normalized

\* --------------------------------------------------------------------
\* Relations of several parts
\* --------------------------------------------------------------------

\* The surface of all the parts of relation `id` the query returned.
PartsReturned(id) ==
    UNION {gdf_normalized[i].geometry.area :
            i \in {j \in 1..Len(gdf_normalized) : gdf_normalized[j].id = id}}

\* C20 as stated: at a level deeper than the root level, a relation that is
\* exported is exported with the union of all of its polygon parts the
\* query returned.
C20_WholeRelationOrNothing ==
    DeeperLevelExported =>
        \A m \in MaritimeExports :
            exported[m].geometry.area = PartsReturned(exported[m].id)

\* --------------------------------------------------------------------
\* The export loop of to_files
\* --------------------------------------------------------------------

\* The polygon parts of a geometry, and the coordinates of all their rings.
PolygonParts(g) ==
    IF g.type = "Polygon" THEN <<g>>
    ELSE SelectSeq(g.geoms, LAMBDA part : part.type = "Polygon")
TotalCoordinates(g) ==
    sum([i \in 1..Len(PolygonParts(g)) |->
            PolygonParts(g)[i].exterior + sum(PolygonParts(g)[i].interiors)])

TooLarge(k) == TotalCoordinates(w_gdf[k].geometry) > MaxGeoJSONCoordinates
IsGeoJSON(j) == upper(w_formats[j]) = "GEOJSON"
Archives(k) == {a \in 1..Len(w_written) : w_written[a].position = k}
ArchivesOf(k, driver) == {a \in Archives(k) : w_written[a].driver = driver}

\* C13: a feature with more than 50,000 coordinates in the rings of its
\* polygon parts gets no GeoJSON archive; when no write raised, each
\* feature has one archive for each requested format, in the order of the
\* request, but for GeoJSON where the feature is too large; whether
\* another feature is too large has no effect.
C13_GeoJSONSkippedAboveLimit ==
    w_called =>
        \A k \in 1..Len(w_gdf) :
            /\ TooLarge(k) => ArchivesOf(k, "GeoJSON") = {}
            /\ w_raised = NoException =>
                LET kept == SelectSeq([j \in 1..Len(w_formats) |-> j],
                                      LAMBDA j : ~(TooLarge(k) /\ IsGeoJSON(j)))
                    mine == SelectSeq(w_written, LAMBDA a : a.position = k)
                IN  /\ Len(mine) = Len(kept)
                    /\ \A i \in 1..Len(kept) :
                        mine[i].driver = driver_lookup[upper(w_formats[kept[i]])]

\* Two features, the first with 50,001 coordinates and the second with
\* exactly 50,000, GeoJSON and CSV requested: one archive and two.
C13_Witness ==
    /\ w_called /\ w_raised = NoException
    /\ Len(w_gdf) = 2
    /\ TotalCoordinates(w_gdf[1].geometry) = MaxGeoJSONCoordinates + 1
    /\ TotalCoordinates(w_gdf[2].geometry) = MaxGeoJSONCoordinates
    /\ \E j \in 1..Len(w_formats) : IsGeoJSON(j)
    /\ ArchivesOf(1, "GeoJSON") = {} /\ ArchivesOf(1, "CSV") # {}
    /\ ArchivesOf(2, "GeoJSON") # {} /\ ArchivesOf(2, "CSV") # {}

\* The pairs of the export matrix that are to be written: all but GeoJSON
\* for a feature that is too large.
Due(k, j) == ~(TooLarge(k) /\ IsGeoJSON(j))

\* The write of format j can succeed here.
Writable(j) ==
    /\ upper(w_formats[j]) \in DOMAIN driver_lookup
    /\ driver_lookup[upper(w_formats[j])] # w_broken

\* C14 as stated: a failure of one (feature, format) pair is not raised
\* out of to_files, and every other pair of the export matrix is still
\* written.
C14_FailureIsolatedPerPair ==
    w_called =>
        /\ w_raised = NoException
        /\ \A k \in 1..Len(w_gdf) : \A j \in 1..Len(w_formats) :
            (Due(k, j) /\ Writable(j)) =>
                ArchivesOf(k, driver_lookup[upper(w_formats[j])]) # {}

\* What a format writes of row k when it is the only format requested:
\* the id as a float for MapInfo, the id as it is for every other driver.
ContentAlone(k, driver) ==
    IF driver = "MapInfo File" THEN astype_float(w_gdf[k].id) ELSE w_gdf[k].id

\* C19 as stated: the content of the archive of a (feature, format) pair is
\* what that format writes of the feature when requested alone, whatever
\* other formats were requested before it.
C19_ContentIndependentOfOtherFormats ==
    w_called =>
        \A a \in 1..Len(w_written) :
            /\ w_written[a].id = ContentAlone(w_written[a].position, w_written[a].driver)
            /\ w_written[a].tags = w_gdf[w_written[a].position].tags

\* --------------------------------------------------------------------
\* The end of overpass_call_with_retry
\* --------------------------------------------------------------------

Ended == rstate \in {"returned", "raised"}
LastCall == Calls[Len(Calls)].out

IsQueryText(q) == q.shape \in {"country_relation", "children_of_parent", "relations_in_area"}
IsUnsupportedLevel(q) == q.shape = "ValueError"
Supported == q_admin_level >= PARENT_ADMIN_LEVEL

\* C16: each builder raises the unsupported-level error for every level
\* below the root level and returns a query text for every level from the
\* root level on; at the root level both return the same text, whatever
\* parent level was passed; no remote call is made.
C16_UnsupportedBelowRoot ==
    /\ ~IsNone(q_primary) =>
        /\ Supported <=> IsQueryText(Get(q_primary))
        /\ ~Supported <=> IsUnsupportedLevel(Get(q_primary))
    /\ ~IsNone(q_fallback) =>
        /\ Supported <=> IsQueryText(Get(q_fallback))
        /\ ~Supported <=> IsUnsupportedLevel(Get(q_fallback))
    /\ (~IsNone(q_primary) /\ ~IsNone(q_fallback) /\ q_admin_level = PARENT_ADMIN_LEVEL) =>
        Get(q_primary) = Get(q_fallback)
    /\ fetches = <<>> /\ trace = <<>>

\* Both builders called for the root level with another parent level.
C16_Witness ==
    /\ q_admin_level = PARENT_ADMIN_LEVEL /\ q_parent # PARENT_ADMIN_LEVEL
    /\ ~IsNone(q_primary) /\ ~IsNone(q_fallback)
    /\ IsQueryText(Get(q_primary))
    /\ Get(q_primary) = Get(q_fallback)

=============================================================================
